---- MODULE Spec2Model ----
(***************************************************************************)
(* A model of config.py: the three settings classes ExchangeConfig,        *)
(* RLConfig and RiskConfig, the operations a client can perform on their   *)
(* instances, and the logging collaborator they write to.                  *)
(*                                                                         *)
(* Numbers of type float are modelled as exact rationals <<n, d>> with     *)
(* d > 0 in lowest terms.  Optional[str] values are modelled as sequences: *)
(* <<>> is None and <<s>> is the string s.                                 *)
(***************************************************************************)
EXTENDS Integers, Sequences, FiniteSets, TLC

VARIABLES exchange, rl, risk, log, outcome

vars == <<exchange, rl, risk, log, outcome>>

(* ------------------------------ bounds -------------------------------- *)

\* The longest log the model lets the logging collaborator accumulate.
MaxLog == 2

(* ---------------------------- float values ---------------------------- *)

Abs(n) == IF n < 0 THEN -n ELSE n

RECURSIVE GCD(_, _)
GCD(a, b) == IF b = 0 THEN a ELSE GCD(b, a % b)

\* The rational n/d in lowest terms with a positive denominator.
Rat(n, d) ==
    LET s == IF d < 0 THEN -1 ELSE 1
        g == GCD(Abs(n), Abs(d))
    IN  <<(s * n) \div g, (s * d) \div g>>

FloatOf(n) == <<n, 1>>

FloatLess(a, b) == a[1] * b[2] < b[1] * a[2]

FloatLessEq(a, b) == a[1] * b[2] <= b[1] * a[2]

FloatMul(a, b) == Rat(a[1] * b[1], a[2] * b[2])

\* a / b; the program only divides by a positive volatility.
FloatDiv(a, b) == Rat(a[1] * b[2], a[2] * b[1])

\* Python's min(a, b): the first argument unless the second is smaller.
PyMin(a, b) == IF FloatLess(b, a) THEN b ELSE a

\* The text an f-string puts for a float: repr() is one-to-one on floats.
FormatFloat(x) == <<"float", x[1], x[2]>>

(* --------------------------- Optional[str] ---------------------------- *)

None == <<>>

\* Python truthiness of an Optional[str]: None and "" are falsy.
TruthyOpt(o) == o # None /\ o[1] # ""

\* Python truthiness of a str.
TruthyStr(s) == s # ""

(* --------------------------- ExchangeConfig --------------------------- *)

DefaultRateLimit == 1000

DefaultTimeout == 30000

Names == {"", "binance"}

Credentials == {None, <<"">>, <<"k3y">>}

RateLimits == {DefaultRateLimit, 5}

Timeouts == {DefaultTimeout, 10}

ExchangeFields == {"name", "api_key", "secret", "sandbox", "rate_limit", "timeout"}

\* The values a caller may pass for (or assign to) each field.
ExchangeFieldValues(f) ==
    CASE f = "name" -> Names
      [] f = "api_key" -> Credentials
      [] f = "secret" -> Credentials
      [] f = "sandbox" -> BOOLEAN
      [] f = "rate_limit" -> RateLimits
      [] f = "timeout" -> Timeouts

ExchangeArgs ==
    [name : Names, api_key : Credentials, secret : Credentials,
     sandbox : BOOLEAN, rate_limit : RateLimits, timeout : Timeouts]

\* The message of logging.warning at line 30, with the name formatted in.
LiveTradingWarning(name) ==
    <<"WARNING", "Live trading enabled for ", name, " but API credentials missing">>

\* The field assignments of the __init__ that @dataclass generates.
ExchangeConfigInitNoSandbox(args) == [args EXCEPT !.sandbox = TRUE]

ExchangeConfigInit(args) == args

\* __post_init__: what it raises, or what it logs before returning.
PostInitNoNameCheck(self) ==
    IF ~self.sandbox /\ (~TruthyOpt(self.api_key) \/ ~TruthyOpt(self.secret))
    THEN [kind |-> "return", exc |-> "", logged |-> <<LiveTradingWarning(self.name)>>]
    ELSE [kind |-> "return", exc |-> "", logged |-> <<>>]

PostInitWarnsInSandbox(self) ==
    IF ~TruthyStr(self.name)
    THEN [kind |-> "raise", exc |-> "ValueError", logged |-> <<>>]
    ELSE IF ~TruthyOpt(self.api_key) \/ ~TruthyOpt(self.secret)
         THEN [kind |-> "return", exc |-> "",
               logged |-> <<LiveTradingWarning(self.name)>>]
         ELSE [kind |-> "return", exc |-> "", logged |-> <<>>]

PostInitCredentialsFatal(self) ==
    IF ~TruthyStr(self.name)
    THEN [kind |-> "raise", exc |-> "ValueError", logged |-> <<>>]
    ELSE IF ~self.sandbox /\ (~TruthyOpt(self.api_key) \/ ~TruthyOpt(self.secret))
         THEN [kind |-> "raise", exc |-> "ValueError", logged |-> <<>>]
         ELSE [kind |-> "return", exc |-> "", logged |-> <<>>]

PostInit(self) ==
    IF ~TruthyStr(self.name)
    THEN [kind |-> "raise", exc |-> "ValueError", logged |-> <<>>]
    ELSE IF ~self.sandbox /\ (~TruthyOpt(self.api_key) \/ ~TruthyOpt(self.secret))
         THEN [kind |-> "return", exc |-> "",
               logged |-> <<LiveTradingWarning(self.name)>>]
         ELSE [kind |-> "return", exc |-> "", logged |-> <<>>]

\* cfg = ExchangeConfig(...): the generated __init__ assigns the fields and
\* calls __post_init__; when that raises, no instance reaches the caller and
\* the caller's binding is left as it was.
ConstructExchange(args) ==
    LET self == ExchangeConfigInit(args)
        r == PostInit(self)
    IN  /\ Len(log) < MaxLog
        /\ log' = log \o r.logged
        /\ exchange' = IF r.kind = "return" THEN <<self>> ELSE exchange
        /\ outcome' = [op |-> "ExchangeConfig", args |-> args, kind |-> r.kind,
                       exc |-> r.exc,
                       value |-> IF r.kind = "return" THEN <<self>> ELSE <<>>,
                       logged |-> r.logged]
        /\ UNCHANGED <<rl, risk>>

\* cfg.<field> = value: the dataclass is not frozen, so the assignment goes
\* through and __post_init__ is not run again.
SetExchangeField(f, v) ==
    /\ exchange # <<>>
    /\ exchange' = <<[exchange[1] EXCEPT ![f] = v]>>
    /\ outcome' = [op |-> "setattr", args |-> <<f, v>>, kind |-> "return",
                   exc |-> "", value |-> <<>>, logged |-> <<>>]
    /\ UNCHANGED <<rl, risk, log>>

NoCall ==
    [op |-> "none", args |-> <<>>, kind |-> "return", exc |-> "",
     value |-> <<>>, logged |-> <<>>]

InitExchange ==
    /\ exchange = <<>>
    /\ rl = <<>>
    /\ risk = <<>>
    /\ log = <<>>
    /\ outcome = NoCall

NextExchange ==
    \/ \E args \in ExchangeArgs : ConstructExchange(args)
    \/ \E f \in ExchangeFields : \E v \in ExchangeFieldValues(f) : SetExchangeField(f, v)

SpecExchange == InitExchange /\ [][NextExchange]_vars

(* ------------------------------ RLConfig ------------------------------ *)

DefaultBatchSize == 32

DefaultMemorySize == 10000

DefaultUpdateFrequency == 100

LearningRates == {Rat(-1, 2), FloatOf(0), Rat(1, 1000), Rat(1, 2), FloatOf(1), Rat(3, 2)}

DiscountFactors == {Rat(99, 100), Rat(3, 2)}

ExplorationRates == {Rat(-1, 10), FloatOf(0), Rat(1, 10), FloatOf(1), FloatOf(2)}

BatchSizes == {DefaultBatchSize, -1}

MemorySizes == {DefaultMemorySize, 0}

UpdateFrequencies == {DefaultUpdateFrequency, -5}

RLArgs ==
    [learning_rate : LearningRates, discount_factor : DiscountFactors,
     exploration_rate : ExplorationRates, batch_size : BatchSizes,
     memory_size : MemorySizes, update_frequency : UpdateFrequencies]

LearningRateWarning(x) ==
    <<"Learning rate ", FormatFloat(x), " outside recommended range (0,1)">>

ExplorationRateWarning(x) ==
    <<"Exploration rate ", FormatFloat(x), " must be in [0,1]">>

\* RLConfig.validate: the list it returns, the object as it leaves it, and
\* what it sends to the logging collaborator.
validateInclusiveLearningRate(self) ==
    LET w1 == IF ~(FloatLessEq(FloatOf(0), self.learning_rate)
                   /\ FloatLessEq(self.learning_rate, FloatOf(1)))
              THEN <<LearningRateWarning(self.learning_rate)>> ELSE <<>>
        w2 == IF ~(FloatLessEq(FloatOf(0), self.exploration_rate)
                   /\ FloatLessEq(self.exploration_rate, FloatOf(1)))
              THEN <<ExplorationRateWarning(self.exploration_rate)>> ELSE <<>>
    IN  [value |-> w1 \o w2, self |-> self, logged |-> <<>>]

validateExclusiveExplorationRate(self) ==
    LET w1 == IF ~(FloatLess(FloatOf(0), self.learning_rate)
                   /\ FloatLess(self.learning_rate, FloatOf(1)))
              THEN <<LearningRateWarning(self.learning_rate)>> ELSE <<>>
        w2 == IF ~(FloatLess(FloatOf(0), self.exploration_rate)
                   /\ FloatLess(self.exploration_rate, FloatOf(1)))
              THEN <<ExplorationRateWarning(self.exploration_rate)>> ELSE <<>>
    IN  [value |-> w1 \o w2, self |-> self, logged |-> <<>>]

validateLogsWarnings(self) ==
    LET w1 == IF ~(FloatLess(FloatOf(0), self.learning_rate)
                   /\ FloatLess(self.learning_rate, FloatOf(1)))
              THEN <<LearningRateWarning(self.learning_rate)>> ELSE <<>>
        w2 == IF ~(FloatLessEq(FloatOf(0), self.exploration_rate)
                   /\ FloatLessEq(self.exploration_rate, FloatOf(1)))
              THEN <<ExplorationRateWarning(self.exploration_rate)>> ELSE <<>>
    IN  [value |-> w1 \o w2, self |-> self, logged |-> w1 \o w2]

validate(self) ==
    LET w1 == IF ~(FloatLess(FloatOf(0), self.learning_rate)
                   /\ FloatLess(self.learning_rate, FloatOf(1)))
              THEN <<LearningRateWarning(self.learning_rate)>> ELSE <<>>
        w2 == IF ~(FloatLessEq(FloatOf(0), self.exploration_rate)
                   /\ FloatLessEq(self.exploration_rate, FloatOf(1)))
              THEN <<ExplorationRateWarning(self.exploration_rate)>> ELSE <<>>
    IN  [value |-> w1 \o w2, self |-> self, logged |-> <<>>]

\* cfg = RLConfig(...): the generated __init__ only assigns the fields.  The
\* client builds the group once, at start-up.
ConstructRL(args) ==
    /\ rl = <<>>
    /\ rl' = <<args>>
    /\ outcome' = [op |-> "RLConfig", args |-> args, kind |-> "return",
                   exc |-> "", value |-> <<args>>, logged |-> <<>>]
    /\ UNCHANGED <<exchange, risk, log>>

\* cfg.validate()
Validate ==
    /\ rl # <<>>
    /\ LET r == validate(rl[1])
       IN  /\ rl' = <<r.self>>
           /\ log' = log \o r.logged
           /\ outcome' = [op |-> "validate", args |-> rl[1], kind |-> "return",
                          exc |-> "", value |-> r.value, logged |-> r.logged]
    /\ UNCHANGED <<exchange, risk>>

(* ----------------------------- RiskConfig ----------------------------- *)

MaxPositionSizes == {Rat(-1, 10), FloatOf(0), Rat(1, 10), Rat(1, 2)}

RiskArgs ==
    [max_position_size : MaxPositionSizes, max_daily_loss : {Rat(2, 100)},
     stop_loss_pct : {Rat(2, 100)}, take_profit_pct : {Rat(5, 100)},
     max_leverage : {FloatOf(3)}, correlation_threshold : {Rat(7, 10)}]

PortfolioValues == {FloatOf(-100), FloatOf(0), FloatOf(10000)}

Volatilities == {FloatOf(-1), FloatOf(0), Rat(1, 2), FloatOf(1), FloatOf(2)}

\* RiskConfig.calculate_position_size: the value it returns, the object as
\* it leaves it, and what it sends to the logging collaborator.
calculate_position_size_max(self, portfolio_value, volatility) ==
    IF FloatLessEq(volatility, FloatOf(0))
    THEN [value |-> FloatOf(0), self |-> self, logged |-> <<>>]
    ELSE LET risk_adjusted_size == FloatDiv(self.max_position_size, volatility)
             a == FloatMul(risk_adjusted_size, portfolio_value)
             b == FloatMul(portfolio_value, self.max_position_size)
         IN  [value |-> IF FloatLess(a, b) THEN b ELSE a,
              self |-> self, logged |-> <<>>]

calculate_position_size_uncapped(self, portfolio_value, volatility) ==
    IF FloatLessEq(volatility, FloatOf(0))
    THEN [value |-> FloatOf(0), self |-> self, logged |-> <<>>]
    ELSE LET risk_adjusted_size == FloatDiv(self.max_position_size, volatility)
         IN  [value |-> FloatMul(risk_adjusted_size, portfolio_value),
              self |-> self, logged |-> <<>>]

calculate_position_size(self, portfolio_value, volatility) ==
    IF FloatLessEq(volatility, FloatOf(0))
    THEN [value |-> FloatOf(0), self |-> self, logged |-> <<>>]
    ELSE LET risk_adjusted_size == FloatDiv(self.max_position_size, volatility)
         IN  [value |-> PyMin(FloatMul(risk_adjusted_size, portfolio_value),
                              FloatMul(portfolio_value, self.max_position_size)),
              self |-> self, logged |-> <<>>]

\* cfg = RiskConfig(...): the generated __init__ only assigns the fields.
\* The client builds the group once, at start-up.
ConstructRisk(args) ==
    /\ risk = <<>>
    /\ risk' = <<args>>
    /\ outcome' = [op |-> "RiskConfig", args |-> args, kind |-> "return",
                   exc |-> "", value |-> <<args>>, logged |-> <<>>]
    /\ UNCHANGED <<exchange, rl, log>>

\* cfg.calculate_position_size(portfolio_value, volatility)
CalculatePositionSize(portfolio_value, volatility) ==
    /\ risk # <<>>
    /\ LET r == calculate_position_size(risk[1], portfolio_value, volatility)
       IN  /\ risk' = <<r.self>>
           /\ log' = log \o r.logged
           /\ outcome' = [op |-> "calculate_position_size",
                          args |-> [self |-> risk[1],
                                    portfolio_value |-> portfolio_value,
                                    volatility |-> volatility],
                          kind |-> "return", exc |-> "", value |-> r.value,
                          logged |-> r.logged]
    /\ UNCHANGED <<exchange, rl>>

\* The log as an earlier ExchangeConfig construction may have left it.
Init ==
    /\ exchange = <<>>
    /\ rl = <<>>
    /\ risk = <<>>
    /\ log \in {<<>>, <<LiveTradingWarning("binance")>>}
    /\ outcome = NoCall

Next ==
    \/ \E args \in RLArgs : ConstructRL(args)
    \/ Validate
    \/ \E args \in RiskArgs : ConstructRisk(args)
    \/ \E pv \in PortfolioValues : \E vol \in Volatilities : CalculatePositionSize(pv, vol)

Spec == Init /\ [][Next]_vars

(* ======================= claims: ExchangeConfig ======================= *)

MissingCredential(args) == ~TruthyOpt(args.api_key) \/ ~TruthyOpt(args.secret)

\* C1: constructing an ExchangeConfig with an empty name fails, whatever the
\* other arguments are: the call raises (the code's error is a ValueError)
\* and hands no instance to the caller.
C1_EmptyNameRaises ==
    (outcome.op = "ExchangeConfig" /\ outcome.args.name = "")
        => /\ outcome.kind = "raise"
           /\ outcome.exc = "ValueError"
           /\ outcome.value = <<>>

C1_Witness ==
    /\ outcome.op = "ExchangeConfig"
    /\ outcome.args.name = ""
    /\ outcome.args.api_key = <<"k3y">>
    /\ outcome.args.secret = <<"k3y">>
    /\ outcome.args.sandbox
    /\ outcome.kind = "raise"

\* C2: constructing an ExchangeConfig with a non-empty name succeeds for
\* every combination of the other arguments, and the instance the caller
\* gets holds exactly the values given.
C2_NonEmptyNameConstructs ==
    (outcome.op = "ExchangeConfig" /\ outcome.args.name # "")
        => /\ outcome.kind = "return"
           /\ outcome.value = <<outcome.args>>
           /\ exchange = <<outcome.args>>

C2_Witness ==
    /\ outcome.op = "ExchangeConfig"
    /\ outcome.args.name = "binance"
    /\ outcome.args.api_key = None
    /\ ~outcome.args.sandbox
    /\ outcome.args.rate_limit = 5
    /\ outcome.args.timeout = 10
    /\ outcome.kind = "return"
    /\ exchange = <<outcome.args>>

\* C3 as stated: every construction with sandbox=false and a credential
\* missing logs a warning and succeeds.
C3_Original ==
    (outcome.op = "ExchangeConfig" /\ ~outcome.args.sandbox
        /\ MissingCredential(outcome.args))
        => /\ outcome.kind = "return"
           /\ outcome.logged = <<LiveTradingWarning(outcome.args.name)>>
           /\ log # <<>>
           /\ log[Len(log)] = LiveTradingWarning(outcome.args.name)

\* C3 amended: a construction with a non-empty name, sandbox=false and a
\* credential missing logs one warning naming the exchange and succeeds.
C3_WarnsAndSucceeds ==
    (outcome.op = "ExchangeConfig" /\ outcome.args.name # ""
        /\ ~outcome.args.sandbox /\ MissingCredential(outcome.args))
        => /\ outcome.kind = "return"
           /\ exchange = <<outcome.args>>
           /\ outcome.logged = <<LiveTradingWarning(outcome.args.name)>>
           /\ log # <<>>
           /\ log[Len(log)] = LiveTradingWarning(outcome.args.name)

C3_Witness ==
    /\ outcome.op = "ExchangeConfig"
    /\ outcome.args.name = "binance"
    /\ ~outcome.args.sandbox
    /\ outcome.args.api_key = <<"k3y">>
    /\ outcome.args.secret = None
    /\ outcome.kind = "return"
    /\ Len(log) = 2

\* C8 as stated: an existing ExchangeConfig instance has a non-empty name in
\* every reachable state, client field assignments included.
C8_Original == exchange # <<>> => exchange[1].name # ""

\* C8 amended: the instance a construction returns has a non-empty name, and
\* every step other than a client's field assignment keeps the name of the
\* existing instance non-empty.
C8_NameKeptUnlessAssigned ==
    [][/\ (outcome'.op = "ExchangeConfig" /\ outcome'.kind = "return")
            => exchange'[1].name # ""
       /\ (exchange # <<>> /\ exchange[1].name # "" /\ outcome'.op # "setattr")
            => (exchange' # <<>> /\ exchange'[1].name # "")]_vars

\* A failed construction after a successful one: the instance is still there.
C8_Witness ==
    /\ exchange # <<>>
    /\ exchange[1].name # ""
    /\ outcome.op = "ExchangeConfig"
    /\ outcome.kind = "raise"

\* C10: the log grows only by a construction that succeeds with
\* sandbox=false and a credential absent or empty, and then by exactly the
\* missing-credentials warning; nothing is logged in sandbox mode, with both
\* credentials non-empty, or when the construction fails.
C10_WarningOnlyWhenLiveAndMissing ==
    [][log' # log =>
        /\ outcome'.op = "ExchangeConfig"
        /\ outcome'.kind = "return"
        /\ ~outcome'.args.sandbox
        /\ MissingCredential(outcome'.args)
        /\ log' = Append(log, LiveTradingWarning(outcome'.args.name))]_vars

C10_Witness ==
    /\ outcome.op = "ExchangeConfig"
    /\ outcome.kind = "return"
    /\ ~outcome.args.sandbox
    /\ outcome.args.api_key = <<"">>
    /\ outcome.args.secret = <<"k3y">>
    /\ log = <<LiveTradingWarning("binance")>>

(* ===================== claims: RLConfig, RiskConfig =================== *)

InOpenUnit(x) == x[1] > 0 /\ x[1] < x[2]

InClosedUnit(x) == x[1] >= 0 /\ x[1] <= x[2]

\* C4: validate() returns a warning mentioning the learning rate exactly when
\* the learning rate is outside (0,1), the endpoints 0 and 1 included,
\* whatever the exploration rate is.
C4_LearningRateWarning ==
    outcome.op = "validate" =>
        LET lr == outcome.args.learning_rate
            w == outcome.value
        IN  /\ ~InOpenUnit(lr) =>
                \E i \in 1..Len(w) :
                    w[i][1] = "Learning rate " /\ w[i][2] = FormatFloat(lr)
            /\ InOpenUnit(lr) =>
                \A i \in 1..Len(w) : w[i][1] # "Learning rate "

C4_Witness ==
    /\ outcome.op = "validate"
    /\ outcome.args.learning_rate = FloatOf(1)
    /\ outcome.args.exploration_rate = FloatOf(2)
    /\ Len(outcome.value) = 2

\* C5: validate() returns normally, and returns the empty list exactly when
\* the learning rate is strictly inside (0,1) and the exploration rate is in
\* [0,1]; the other four fields add nothing; constructing an RLConfig
\* succeeds for every value, in range or not.
C5_ValidateEmptyIffInRange ==
    /\ outcome.op = "validate" =>
        /\ outcome.kind = "return"
        /\ outcome.value = <<>>
            <=> (InOpenUnit(outcome.args.learning_rate)
                 /\ InClosedUnit(outcome.args.exploration_rate))
    /\ outcome.op = "RLConfig" =>
        /\ outcome.kind = "return"
        /\ rl = <<outcome.args>>

C5_Witness ==
    /\ outcome.op = "validate"
    /\ outcome.value = <<>>
    /\ outcome.args.exploration_rate = FloatOf(1)
    /\ outcome.args.discount_factor = Rat(3, 2)
    /\ outcome.args.batch_size = -1
    /\ outcome.args.memory_size = 0
    /\ outcome.args.update_frequency = -5

\* C6: calculate_position_size returns 0 when volatility <= 0, and otherwise
\* the smaller of (max_position_size / volatility) * portfolio_value and
\* portfolio_value * max_position_size; 10000 at volatility 0.5 with
\* max_position_size 0.1 gives 1000.
C6_PositionSize ==
    outcome.op = "calculate_position_size" =>
        LET mps == outcome.args.self.max_position_size
            pv == outcome.args.portfolio_value
            vol == outcome.args.volatility
            v == outcome.value
            cap == FloatMul(pv, mps)
        IN  /\ vol[1] <= 0 => v = FloatOf(0)
            /\ vol[1] > 0 =>
                \* v = mps / vol * pv  iff  v * vol = mps * pv
                /\ FloatMul(v, vol) = FloatMul(mps, pv) \/ v = cap
                /\ FloatLessEq(FloatMul(v, vol), FloatMul(mps, pv))
                /\ FloatLessEq(v, cap)
            /\ (pv = FloatOf(10000) /\ vol = Rat(1, 2) /\ mps = Rat(1, 10))
                => v = FloatOf(1000)

C6_Witness ==
    /\ outcome.op = "calculate_position_size"
    /\ outcome.args.portfolio_value = FloatOf(10000)
    /\ outcome.args.volatility = Rat(1, 2)
    /\ outcome.args.self.max_position_size = Rat(1, 10)
    /\ outcome.value = FloatOf(1000)

\* C7 as stated: for every portfolio value, volatility and
\* max_position_size the result is at most
\* portfolio_value * max_position_size.
C7_Original ==
    outcome.op = "calculate_position_size" =>
        FloatLessEq(outcome.value,
                    FloatMul(outcome.args.portfolio_value,
                             outcome.args.self.max_position_size))

\* C7 amended: the result is at most portfolio_value * max_position_size
\* whenever volatility > 0, and also whenever that product is not negative.
C7_Capped ==
    outcome.op = "calculate_position_size" =>
        LET cap == FloatMul(outcome.args.portfolio_value,
                            outcome.args.self.max_position_size)
        IN  (outcome.args.volatility[1] > 0 \/ cap[1] >= 0)
                => FloatLessEq(outcome.value, cap)

C7_Witness ==
    /\ outcome.op = "calculate_position_size"
    /\ outcome.args.portfolio_value = FloatOf(10000)
    /\ outcome.args.volatility = Rat(1, 2)
    /\ outcome.args.self.max_position_size = Rat(1, 2)
    /\ outcome.value = FloatOf(5000)

\* C9: validate() and calculate_position_size() leave every field of their
\* object (and of the other object) as it was and log nothing, and a call
\* repeated with the same arguments returns what the call before returned.
C9_SideEffectFree ==
    [][/\ outcome'.op \in {"validate", "calculate_position_size"}
            => (rl' = rl /\ risk' = risk /\ log' = log /\ exchange' = exchange)
       /\ (outcome.op = "validate" /\ outcome'.op = "validate")
            => outcome'.value = outcome.value
       /\ (outcome.op = "calculate_position_size"
           /\ outcome'.op = "calculate_position_size"
           /\ outcome'.args.portfolio_value = outcome.args.portfolio_value
           /\ outcome'.args.volatility = outcome.args.volatility)
            => outcome'.value = outcome.value]_vars

C9_Witness ==
    /\ outcome.op = "validate"
    /\ outcome.value # <<>>
    /\ risk # <<>>
    /\ log = <<LiveTradingWarning("binance")>>

====
